---- MODULE Spec2Model ----
(***************************************************************************)
(* Booking engine of the airline booking system (TicketService):          *)
(* book_ticket, book_ticket_for_flight, revert_booking, book_seat and     *)
(* book_seat_for_ticket over the flight, seat_info and ticket tables.     *)
(*                                                                         *)
(* Every SQL statement that runs on the pool outside a transaction is one *)
(* atomic step.  The statements of a transaction that writes (the        *)
(* version-gated UPDATE and what follows it up to the commit) take       *)
(* effect together in one step: InnoDB holds the row locks of the        *)
(* transaction until it commits.  Reads of the flight table's existence  *)
(* (rows of flight are never inserted or deleted by the engine) are      *)
(* folded into the next statement of the same call.                      *)
(*                                                                         *)
(* A (flight_number, flight_date) pair names at most one flight row, and  *)
(* is identified with that row's flight_id.  Ticket ids and flight ids    *)
(* are both AUTO_INCREMENT integers counted from 1: revert_booking binds  *)
(* a flight id where a ticket id is expected, so the two share a domain. *)
(* Failures of the store itself (lost connections, lock-wait timeouts)    *)
(* are not modelled; the only DatabaseError is fetch_one finding no row.  *)
(***************************************************************************)
EXTENDS Integers, Sequences, FiniteSets, TLC

\* ---------------------------------------------------------------- bounds
\* flights that exist: flight_id 1..NumFlights (AUTO_INCREMENT); the flight
\* number NumFlights + 1 names a flight that does not exist
NumFlights == 2
\* seats of every flight: seat_number 1..NumSeats; NumSeats + 1 is a seat
\* number without a seat_info row
NumSeats == 2
\* customers that issue calls
NumCustomers == 3
\* largest initial available_tickets of a flight
MaxQuota == 2
\* longest list of flights in one TicketBookingRequest
MaxLegs == 2

\* ------------------------------------------------------------- SQL values
\* SQL NULL in flight.version (Option<i32>)
NULL == -1
\* None in ticket.seat_number / preferred_seat (Option<i32>)
None == 0

Flights == 1..NumFlights
FlightNumbers == 1..(NumFlights + 1)
SeatNumbers == 1..NumSeats
SeatRefs == 1..(NumSeats + 1)
Customers == 1..NumCustomers

\* AppError kinds the engine constructs
ValidationError == "ValidationError"
BadRequest == "BadRequest"
DatabaseError == "DatabaseError"
\* AppError::Conflict, which only register_user constructs
Conflict == "Conflict"
NotFound == "NotFound"

\* SeatStatus
Available == "AVAILABLE"
Booked == "BOOKED"
Unavailable == "UNAVAILABLE"

\* TicketBookingResponse.booking_status
Confirmed == "Confirmed"
SeatUnavailableStatus == "Confirmed booking, however the preferred seat is currently unavaiable, please try again later."

VARIABLES
    flight,      \* table flight: flight_id -> [available_tickets, version]
    seat_info,   \* table seat_info: <<flight_id, seat_number>> -> [seat_status, version]
    ticket,      \* table ticket: set of rows [id, customer_id, flight_id, seat_number]
    next_id,     \* AUTO_INCREMENT counter of ticket.id
    calls,       \* the calls issued: caller -> request (never changes)
    proc,        \* caller -> position in its call, locals, and the value returned
    quota,       \* flight_id -> available_tickets before any call (history)
    serial,      \* TRUE when calls are issued one after the other
    pre,         \* serial runs: the call started last, and the tables at its start
    flight_dated,  \* table flight, the columns never written: flight_id -> [flight_number, flight_date]
    flight_route,  \* table flight_route: flight_number -> [departure_city, destination_city]
    user,          \* table user: set of rows [id, username]
    customer_info, \* table customer_info: the ids that have a row
    next_user_id   \* AUTO_INCREMENT counter of user.id

\* the tables the booking engine never writes
other_tables == <<flight_dated, flight_route, user, customer_info, next_user_id>>

vars == <<flight, seat_info, ticket, next_id, calls, proc, quota, serial, pre,
          flight_dated, flight_route, user, customer_info, next_user_id>>

\* ------------------------------------------------------------ SQL helpers
\* a gate that lets every version not older than the stored one through
VersionEqOrNewer(column, bound) == column # NULL /\ bound # NULL /\ column >= bound

\* `version = ?` in a WHERE clause: NULL compares equal to nothing
VersionEq(column, bound) == column # NULL /\ bound # NULL /\ column = bound

\* a SET that leaves the version column out
VersionKept(v) == v

\* `version = version + 1`: NULL + 1 is NULL
VersionInc(v) == IF v = NULL THEN NULL ELSE v + 1

\* SELECT ... FROM flight WHERE flight_number = ? AND flight_date = ?
\* (one dated flight per flight number: the pair is the flight's id)
FlightExists(flight_number) == flight_number \in Flights

\* a query for the customer's tickets that finds none
TicketsOfNone(customer_id, flight_id) == {}

\* rows of ticket WHERE customer_id = ? AND flight_id = ?
TicketsOf(customer_id, flight_id) ==
    {t \in ticket : t.customer_id = customer_id /\ t.flight_id = flight_id}

\* rows of ticket WHERE id = ?
TicketsById(id) == {t \in ticket : t.id = id}

SeatExists(flight_id, seat_number) == <<flight_id, seat_number>> \in DOMAIN seat_info

\* ------------------------------------------------------------ call records
IsBookTicket(p) == calls[p].op = "book_ticket"
IsBookSeat(p) == calls[p].op = "book_seat_for_ticket"
\* the calls of FlightService and UserService, and get_history
IsGetAvailableSeats(p) == calls[p].op = "get_available_seats"
IsSearchFlights(p) == calls[p].op = "search_flights"
IsGetHistory(p) == calls[p].op = "get_history"
IsRegisterUser(p) == calls[p].op = "register_user"

Procs == DOMAIN calls

\* the attempts of a loop are counted up to MaxAttempts
MaxAttempts == 6
Counted(n) == IF n < MaxAttempts THEN n + 1 ELSE n

\* the FlightBookingRequest book_ticket is processing
Leg(p) == calls[p].flights[proc[p].leg]

\* the SeatBookingRequest of the running book_seat_for_ticket: the caller's own
\* request, or the one book_ticket_for_flight builds from the preferred seat
SeatRequest(p) ==
    IF IsBookSeat(p)
    THEN [flight_number |-> calls[p].flight_number, seat_number |-> calls[p].seat_number]
    ELSE [flight_number |-> Leg(p).flight_number, seat_number |-> Leg(p).preferred_seat]

InitProc(p) ==
    [pc |-> IF IsBookTicket(p) THEN "bt_check"
            ELSE IF IsBookSeat(p) THEN "bs_ticket"
            ELSE IF IsGetAvailableSeats(p) THEN "gs_select"
            ELSE IF IsSearchFlights(p) THEN "sf_select"
            ELSE IF IsGetHistory(p) THEN "gh_select"
            ELSE "ru_check",
     leg |-> 1,
     flight_booking_results |-> << >>,
     fail_to_choose_seat |-> FALSE,
     version |-> 0,
     ticket_id |-> 0,
     old_seat_number |-> None,
     seat_version |-> 0,
     attempts |-> 0,
     rev |-> 0,
     rev_flight_id |-> 0,
     leg_error |-> "",
     created |-> {},
     commits |-> << >>,
     reverted |-> << >>,
     result |-> "",
     result_cause |-> "",
     booking_status |-> "",
     last_insert_id |-> 0,
     response |-> << >>]

Done(p) == proc[p].pc = "done"
Started(p) == proc[p] # InitProc(p)
Running(p) == Started(p) /\ ~Done(p)

\* the caller whose call returns before this one is issued (a client that
\* sends its requests in sequence), 0 when the call waits for none
After(p) == IF "after" \in DOMAIN calls[p] THEN calls[p].after ELSE 0

\* calls issued one after the other: a call starts only when no other runs
Scheduled(p) ==
    /\ serial => \A q \in Procs \ {p} : ~Running(q)
    /\ After(p) # 0 => proc[After(p)].pc = "done"

\* the history variable pre: the caller of the call that started last in a
\* serial run, and the tables as they were when it started
Snapshot(p) ==
    IF serial /\ ~Started(p)
    THEN [caller |-> p, flight |-> flight, seat_info |-> seat_info, ticket |-> ticket,
          user |-> user, customer_info |-> customer_info]
    ELSE pre

\* ------------------------------------------------------------- book_ticket
\* a booking_status that ignores fail_to_choose_seat
BookingStatusAlwaysConfirmed(fail_to_choose_seat) == Confirmed

\* booking_status of the TicketBookingResponse
BookingStatus(fail_to_choose_seat) ==
    IF ~fail_to_choose_seat THEN Confirmed ELSE SeatUnavailableStatus

\* book_ticket handing the error of the flight on unchanged
BookTicketErrorPassed(e) == e

\* the error book_ticket returns after reverting, whatever e was
BookTicketError(e) == ValidationError

\* match arm Ok(r): r is pushed, the loop goes to the next flight of the
\* request, and after the last one book_ticket returns Ok.  loc is the
\* caller's record when book_ticket_for_flight returns
BookOk(p, loc, seat_number) ==
    LET fail == loc.fail_to_choose_seat
                  \/ (Leg(p).preferred_seat # None /\ seat_number = None)
        results == Append(loc.flight_booking_results,
                          [ticket_id |-> loc.ticket_id, seat_number |-> seat_number])
        cleared == [loc EXCEPT !.flight_booking_results = results,
                               !.fail_to_choose_seat = fail,
                               !.version = 0, !.ticket_id = 0,
                               !.old_seat_number = None, !.seat_version = 0]
    IN  IF loc.leg < Len(calls[p].flights)
        THEN [cleared EXCEPT !.pc = "bt_check", !.leg = loc.leg + 1]
        ELSE [cleared EXCEPT !.pc = "done", !.result = "Ok",
                             !.booking_status = BookingStatus(fail)]

\* a loop that goes on to the next flight of the request after an error
BookErrContinue(p, e) ==
    IF proc[p].leg < Len(calls[p].flights)
    THEN [proc[p] EXCEPT !.pc = "bt_check", !.leg = proc[p].leg + 1, !.leg_error = e,
                         !.version = 0]
    ELSE [proc[p] EXCEPT !.pc = "done", !.leg_error = e, !.version = 0,
                         !.result = BookTicketError(e), !.result_cause = e]

\* match arm Err(e): the bookings made so far are reverted in the order of
\* flight_booking_results; with none to revert the error is returned at once
BookErr(p, e) ==
    IF proc[p].flight_booking_results = << >>
    THEN [proc[p] EXCEPT !.pc = "done", !.leg_error = e, !.version = 0,
                         !.result = BookTicketError(e), !.result_cause = e]
    ELSE [proc[p] EXCEPT !.pc = "rv_select", !.leg_error = e, !.version = 0, !.rev = 1]

\* book_ticket_for_flight failing the flight when the seat could not be booked
SeatResultInLegStrict(p, ok) ==
    IF ok THEN BookOk(p, proc[p], Leg(p).preferred_seat) ELSE BookErr(p, ValidationError)

\* what book_ticket_for_flight makes of book_seat_for_ticket's result
SeatResultInLeg(p, ok) ==
    IF ok THEN BookOk(p, proc[p], Leg(p).preferred_seat) ELSE BookOk(p, proc[p], None)

\* a return that reports the requested seat whatever book_seat answered
SeatReturnAlwaysOk(p, ok, e) ==
    IF IsBookSeat(p)
    THEN [proc[p] EXCEPT !.pc = "done", !.result = "Ok",
                         !.old_seat_number = None, !.seat_version = 0]
    ELSE SeatResultInLeg(p, TRUE)

\* book_seat_for_ticket returns: to its caller, or into book_ticket_for_flight
SeatReturn(p, ok, e) ==
    IF IsBookSeat(p)
    THEN [proc[p] EXCEPT !.pc = "done", !.result = IF ok THEN "Ok" ELSE e,
                         !.old_seat_number = None, !.seat_version = 0]
    ELSE SeatResultInLeg(p, ok)

\* ------------------------------------------------- book_ticket_for_flight
\* the flight and its dated row are looked up, then the customer's ticket on it
CheckFlight(p) ==
    /\ proc[p].pc = "bt_check"
    /\ Scheduled(p)
    /\ pre' = Snapshot(p)
    /\ proc' = [proc EXCEPT ![p] =
          IF ~FlightExists(Leg(p).flight_number)
          THEN BookErr(p, BadRequest)
          ELSE IF TicketsOf(calls[p].user_id, Leg(p).flight_number) # {}
          THEN BookErr(p, BadRequest)
          ELSE [proc[p] EXCEPT !.pc = "bt_read", !.attempts = 0]]
    /\ UNCHANGED <<flight, seat_info, ticket, next_id, calls, other_tables, quota, serial>>

\* a loop that never finds the flight fully booked
FullyBookedNever(row) == FALSE

\* if flight.available_tickets == 0
FullyBooked(row) == row.available_tickets = 0

\* top of the loop: SELECT the flight row, give up when it is fully booked
SelectFlight(p) ==
    /\ proc[p].pc = "bt_read"
    /\ Scheduled(p)
    /\ LET row == flight[Leg(p).flight_number]
       IN  proc' = [proc EXCEPT ![p] =
              IF FullyBooked(row)
              THEN BookErr(p, ValidationError)
              ELSE [proc[p] EXCEPT !.pc = "bt_update", !.version = row.version]]
    /\ UNCHANGED <<flight, seat_info, ticket, next_id, calls, other_tables, quota,
                   serial, pre>>

\* the UPDATE without its version gate: WHERE flight_id = ?
FlightUpdateWhereUngated(flight_id, version) == flight_id \in Flights

\* WHERE flight_id = ? AND version = ? of the decrementing UPDATE
FlightUpdateWhere(flight_id, version) == VersionEq(flight[flight_id].version, version)

\* a decrement that leaves the version as it was
FlightDecrementSameVersion(row) ==
    [available_tickets |-> row.available_tickets - 1, version |-> row.version]

\* SET available_tickets = available_tickets - 1, version = version + 1
FlightDecrement(row) ==
    [available_tickets |-> row.available_tickets - 1, version |-> VersionInc(row.version)]

\* a loop that gives up when its UPDATE affected no row
FlightRolledBackSurfaced(p) == BookErr(p, "Conflict")

\* rows_affected() == 0: rollback, sleep, continue
FlightRolledBack(p) ==
    [proc[p] EXCEPT !.pc = "bt_read", !.version = 0, !.attempts = Counted(proc[p].attempts)]

\* the UPDATE in its transaction: committed when a row was affected, rolled
\* back and retried (after the sleep) when none was
UpdateFlight(p) ==
    /\ proc[p].pc = "bt_update"
    /\ Scheduled(p)
    /\ LET f == Leg(p).flight_number
       IN  IF FlightUpdateWhere(f, proc[p].version)
           THEN /\ flight' = [flight EXCEPT ![f] = FlightDecrement(flight[f])]
                /\ proc' = [proc EXCEPT ![p].pc = "bt_insert",
                                        ![p].attempts = Counted(proc[p].attempts),
                                        ![p].commits = Append(proc[p].commits,
                                                              <<f, proc[p].version>>)]
           ELSE /\ flight' = flight
                /\ proc' = [proc EXCEPT ![p] = FlightRolledBack(p)]
    /\ UNCHANGED <<seat_info, ticket, next_id, calls, other_tables, quota, serial, pre>>

\* INSERT INTO ticket; then the seat part when a seat was preferred
InsertTicket(p) ==
    /\ proc[p].pc = "bt_insert"
    /\ Scheduled(p)
    /\ ticket' = ticket \cup {[id |-> next_id, customer_id |-> calls[p].user_id,
                               flight_id |-> Leg(p).flight_number,
                               seat_number |-> None]}
    /\ next_id' = next_id + 1
    /\ LET inserted == [proc[p] EXCEPT !.ticket_id = next_id, !.version = 0,
                                       !.created = proc[p].created \cup {next_id}]
       IN  proc' = [proc EXCEPT ![p] =
              IF Leg(p).preferred_seat # None
              THEN [inserted EXCEPT !.pc = "bs_ticket"]
              ELSE BookOk(p, inserted, None)]
    /\ UNCHANGED <<flight, seat_info, calls, other_tables, quota, serial, pre>>

\* ---------------------------------------------------- book_seat_for_ticket
\* the seat the ticket has is never taken for the seat asked for
SameSeatNever(current_seat, seat_number) == FALSE

\* if let Some(current_seat) = ticket.seat_number { if current_seat == request.seat_number
SameSeat(current_seat, seat_number) == current_seat # None /\ current_seat = seat_number

\* a book_seat_for_ticket that goes on to book_seat when the customer has no
\* ticket on the flight
SelectTicketUnchecked(p) ==
    /\ proc[p].pc = "bs_ticket"
    /\ Scheduled(p)
    /\ pre' = Snapshot(p)
    /\ LET rq == SeatRequest(p)
       IN  IF ~FlightExists(rq.flight_number)
           THEN proc' = [proc EXCEPT ![p] = SeatReturn(p, FALSE, BadRequest)]
           ELSE IF TicketsOf(calls[p].user_id, rq.flight_number) = {}
           THEN proc' = [proc EXCEPT ![p] =
                   [proc[p] EXCEPT !.pc = "bs_read", !.attempts = 0,
                                   !.old_seat_number = None]]
           ELSE \E t \in TicketsOf(calls[p].user_id, rq.flight_number) :
                  proc' = [proc EXCEPT ![p] =
                     IF SameSeat(t.seat_number, rq.seat_number)
                     THEN SeatReturn(p, FALSE, BadRequest)
                     ELSE [proc[p] EXCEPT !.pc = "bs_read", !.attempts = 0,
                                          !.old_seat_number = t.seat_number]]
    /\ UNCHANGED <<flight, seat_info, ticket, next_id, calls, other_tables, quota, serial>>

\* the flight is looked up, then the customer's ticket on it (fetch_optional:
\* any one of the rows that match); the seat the ticket has is the old seat
SelectTicket(p) ==
    /\ proc[p].pc = "bs_ticket"
    /\ Scheduled(p)
    /\ pre' = Snapshot(p)
    /\ LET rq == SeatRequest(p)
       IN  IF ~FlightExists(rq.flight_number)
           THEN proc' = [proc EXCEPT ![p] = SeatReturn(p, FALSE, BadRequest)]
           ELSE IF TicketsOf(calls[p].user_id, rq.flight_number) = {}
           THEN proc' = [proc EXCEPT ![p] = SeatReturn(p, FALSE, BadRequest)]
           ELSE \E t \in TicketsOf(calls[p].user_id, rq.flight_number) :
                  proc' = [proc EXCEPT ![p] =
                     IF SameSeat(t.seat_number, rq.seat_number)
                     THEN SeatReturn(p, FALSE, BadRequest)
                     ELSE [proc[p] EXCEPT !.pc = "bs_read", !.attempts = 0,
                                          !.old_seat_number = t.seat_number]]
    /\ UNCHANGED <<flight, seat_info, ticket, next_id, calls, other_tables, quota, serial>>

\* ------------------------------------------------------------------ book_seat
\* top of the loop: SELECT seat_status, version of the new seat
SelectSeat(p) ==
    /\ proc[p].pc = "bs_read"
    /\ Scheduled(p)
    /\ LET rq == SeatRequest(p)
       IN  proc' = [proc EXCEPT ![p] =
              IF ~SeatExists(rq.flight_number, rq.seat_number)
              THEN SeatReturn(p, FALSE, ValidationError)
              ELSE IF seat_info[<<rq.flight_number, rq.seat_number>>].seat_status # Available
              THEN SeatReturn(p, FALSE, ValidationError)
              ELSE [proc[p] EXCEPT !.pc = "bs_update",
                       !.seat_version = seat_info[<<rq.flight_number, rq.seat_number>>].version]]
    /\ UNCHANGED <<flight, seat_info, ticket, next_id, calls, other_tables, quota,
                   serial, pre>>

\* the UPDATE without its gate: WHERE flight_id = ? AND seat_number = ?
SeatUpdateWhereUngated(flight_id, seat_number, version) ==
    SeatExists(flight_id, seat_number)

\* WHERE flight_id = ? AND seat_number = ? AND version = ? AND seat_status = 'AVAILABLE'
SeatUpdateWhere(flight_id, seat_number, version) ==
    /\ seat_info[<<flight_id, seat_number>>].version = version
    /\ seat_info[<<flight_id, seat_number>>].seat_status = Available

\* a SET that leaves the version as it was
SeatSetSameVersion(row, status) == [seat_status |-> status, version |-> row.version]

\* SET seat_status = ?, version = version + 1
SeatSet(row, status) == [seat_status |-> status, version |-> row.version + 1]

\* a transaction that books the new seat and keeps the old one BOOKED
SeatsAfterBookingKeepOld(flight_id, new_seat_number, old_seat_number) ==
    [seat_info EXCEPT ![<<flight_id, new_seat_number>>] = SeatSet(@, Booked)]

\* seat_info after the transaction of book_seat: the new seat BOOKED, and the
\* old seat, when there is one, AVAILABLE
SeatsAfterBooking(flight_id, new_seat_number, old_seat_number) ==
    LET booked == [seat_info EXCEPT ![<<flight_id, new_seat_number>>] = SeatSet(@, Booked)]
    IN  IF old_seat_number # None
        THEN [booked EXCEPT ![<<flight_id, old_seat_number>>] = SeatSet(@, Available)]
        ELSE booked

\* UPDATE ticket SET seat_number = ? WHERE customer_id = ? AND flight_id = ?
TicketsAfterBooking(customer_id, flight_id, new_seat_number) ==
    {IF t.customer_id = customer_id /\ t.flight_id = flight_id
     THEN [t EXCEPT !.seat_number = new_seat_number] ELSE t : t \in ticket}

\* a loop that retries its UPDATE with the version it read first
SeatRolledBackStale(p) == [proc[p] EXCEPT !.pc = "bs_update"]

\* rows_affected() == 0: rollback, sleep, continue
SeatRolledBack(p) ==
    [proc[p] EXCEPT !.pc = "bs_read", !.seat_version = 0,
                    !.attempts = Counted(proc[p].attempts)]

\* the transaction's writes: committed together when the gated UPDATE
\* affected a row, rolled back and retried (after the sleep) when it did not
UpdateSeat(p) ==
    /\ proc[p].pc = "bs_update"
    /\ Scheduled(p)
    /\ LET rq == SeatRequest(p)
       IN  IF SeatUpdateWhere(rq.flight_number, rq.seat_number, proc[p].seat_version)
           THEN /\ seat_info' = SeatsAfterBooking(rq.flight_number, rq.seat_number,
                                                  proc[p].old_seat_number)
                /\ ticket' = TicketsAfterBooking(calls[p].user_id, rq.flight_number,
                                                 rq.seat_number)
                /\ proc' = [proc EXCEPT ![p] =
                      [SeatReturn(p, TRUE, "") EXCEPT !.attempts = Counted(proc[p].attempts)]]
           ELSE /\ UNCHANGED <<seat_info, ticket>>
                /\ proc' = [proc EXCEPT ![p] = SeatRolledBack(p)]
    /\ UNCHANGED <<flight, next_id, calls, other_tables, quota, serial, pre>>

\* -------------------------------------------------------------- revert_booking
\* the FlightBookingResponse being reverted
ExistingBooking(p) == proc[p].flight_booking_results[proc[p].rev]

\* the loop of book_ticket goes on to the next existing booking, and after
\* the last one book_ticket returns its error
RevertNext(p) ==
    IF proc[p].rev < Len(proc[p].flight_booking_results)
    THEN [proc[p] EXCEPT !.pc = "rv_select", !.rev = proc[p].rev + 1, !.rev_flight_id = 0]
    ELSE [proc[p] EXCEPT !.pc = "done", !.rev = 0, !.rev_flight_id = 0,
                         !.result = BookTicketError(proc[p].leg_error),
                         !.result_cause = proc[p].leg_error]

\* sqlx::Error::RowNotFound, the text a DatabaseError of fetch_one carries
RowNotFound == "RowNotFound"

\* SELECT flight_id FROM ticket WHERE id = ? (fetch_one: no row is an error,
\* which `?` returns from book_ticket as a DatabaseError)
RevertSelect(p) ==
    /\ proc[p].pc = "rv_select"
    /\ Scheduled(p)
    /\ IF TicketsById(ExistingBooking(p).ticket_id) = {}
       THEN proc' = [proc EXCEPT ![p].pc = "done", ![p].result = DatabaseError,
                                 ![p].result_cause = RowNotFound]
       ELSE \E t \in TicketsById(ExistingBooking(p).ticket_id) :
              proc' = [proc EXCEPT ![p].pc = "rv_flight", ![p].rev_flight_id = t.flight_id]
    /\ UNCHANGED <<flight, seat_info, ticket, next_id, calls, other_tables, quota, serial,
                   pre>>

\* a revert that advances the version and gives no ticket back
FlightIncrementLost(row) ==
    [available_tickets |-> row.available_tickets, version |-> VersionInc(row.version)]

\* SET available_tickets = available_tickets + 1, version = version + 1
FlightIncrement(row) ==
    [available_tickets |-> row.available_tickets + 1, version |-> VersionInc(row.version)]

\* UPDATE flight ... WHERE flight_id = ?
RevertFlight(p) ==
    /\ proc[p].pc = "rv_flight"
    /\ Scheduled(p)
    /\ flight' = [flight EXCEPT ![proc[p].rev_flight_id] = FlightIncrement(@)]
    /\ proc' = [proc EXCEPT ![p].pc = "rv_delete",
                            ![p].reverted = Append(proc[p].reverted, proc[p].rev)]
    /\ UNCHANGED <<seat_info, ticket, next_id, calls, other_tables, quota, serial, pre>>

\* the id the DELETE is bound to: flight.flight_id, not request.ticket_id
RevertDeleteId(ticket_id, flight_id) == flight_id

\* DELETE FROM ticket WHERE id = ?
RevertDelete(p) ==
    /\ proc[p].pc = "rv_delete"
    /\ Scheduled(p)
    /\ ticket' = ticket \ TicketsById(RevertDeleteId(ExistingBooking(p).ticket_id,
                                                     proc[p].rev_flight_id))
    /\ proc' = [proc EXCEPT ![p] =
          IF ExistingBooking(p).seat_number # None
          THEN [proc[p] EXCEPT !.pc = "rv_seat"]
          ELSE RevertNext(p)]
    /\ UNCHANGED <<flight, seat_info, next_id, calls, other_tables, quota, serial, pre>>

\* UPDATE seat_info SET seat_status = 'AVAILABLE', version = version + 1
RevertSeat(p) ==
    /\ proc[p].pc = "rv_seat"
    /\ Scheduled(p)
    /\ seat_info' = [seat_info EXCEPT
          ![<<proc[p].rev_flight_id, ExistingBooking(p).seat_number>>] = SeatSet(@, Available)]
    /\ proc' = [proc EXCEPT ![p] = RevertNext(p)]
    /\ UNCHANGED <<flight, ticket, next_id, calls, other_tables, quota, serial, pre>>

\* ------------------------------------------------------------------ requests
BookTicketRequest(user_id, flights) ==
    [op |-> "book_ticket", user_id |-> user_id, flights |-> flights]

BookSeatRequest(user_id, flight_number, seat_number) ==
    [op |-> "book_seat_for_ticket", user_id |-> user_id,
     flight_number |-> flight_number, seat_number |-> seat_number]

FlightBookingRequest(flight_number, preferred_seat) ==
    [flight_number |-> flight_number, preferred_seat |-> preferred_seat]

\* a book_seat_for_ticket issued after caller `after` returned
BookSeatRequestAfter(user_id, flight_number, seat_number, after) ==
    [op |-> "book_seat_for_ticket", user_id |-> user_id, after |-> after,
     flight_number |-> flight_number, seat_number |-> seat_number]

\* lists of 1..MaxLegs flights drawn from legs
LegLists(legs) == UNION {[1..n -> legs] : n \in 1..MaxLegs}

\* ------------------------------------------------------------ initial tables
\* rows of ticket that exist before the calls: each was booked by an earlier
\* book_ticket, which took one unit of quota and advanced the version by one
HeldOn(rows, f) == Cardinality({t \in rows : t.flight_id = f})

\* flights are inserted with version 1 (setup_database of the tests)
InitialFlights(q, rows) ==
    [f \in Flights |-> [available_tickets |-> q[f] - HeldOn(rows, f),
                        version |-> 1 + HeldOn(rows, f)]]

\* seats are inserted with version 0; status[<<f, s>>] is AVAILABLE or UNAVAILABLE
InitialSeats(status) ==
    [k \in Flights \X SeatNumbers |-> [seat_status |-> status[k], version |-> 0]]

AllAvailable == [k \in Flights \X SeatNumbers |-> Available]

\* the cities flights go between
Cities == {"Toronto", "Vancouver", "Montreal"}

\* every customer has registered: user c, named c, with its customer_info row
RegisteredCustomers == {[id |-> c, username |-> c] : c \in Customers}

\* flight f is flight number f on date 1; every route is Toronto - Vancouver
DefaultDated == [f \in Flights |-> [flight_number |-> f, flight_date |-> 1]]
DefaultRoutes ==
    [n \in Flights |-> [departure_city |-> "Toronto", destination_city |-> "Vancouver"]]

\* the tables of the engine with the given rows of flight, the calls, and
\* the given schedule of flights
InitFlights(q, rows, status, requests, oneByOne, dated, routes, flights) ==
    /\ quota = q
    /\ flight = flights
    /\ seat_info = InitialSeats(status)
    /\ ticket = rows
    /\ next_id = Cardinality(rows) + 1
    /\ calls = requests
    /\ proc = [p \in DOMAIN requests |-> InitProc(p)]
    /\ serial = oneByOne
    /\ pre = [caller |-> 0, flight |-> flights,
              seat_info |-> InitialSeats(status), ticket |-> rows,
              user |-> RegisteredCustomers, customer_info |-> Customers]
    /\ flight_dated = dated
    /\ flight_route = routes
    /\ user = RegisteredCustomers
    /\ customer_info = Customers
    /\ next_user_id = NumCustomers + 1

\* flights inserted with a version
InitTables(q, rows, status, requests, oneByOne, dated, routes) ==
    InitFlights(q, rows, status, requests, oneByOne, dated, routes,
                InitialFlights(q, rows))

InitWith(q, rows, status, requests, oneByOne) ==
    InitTables(q, rows, status, requests, oneByOne, DefaultDated, DefaultRoutes)

\* ------------------------------------------------ concurrent calls of any kind
\* callers of the general runs
NumCallers == 2

\* a caller books 1..MaxLegs flights (existing or not), with or without
\* preferring seat 1, or asks for seat 1 on a flight
GeneralLegs == {FlightBookingRequest(f, s) : f \in FlightNumbers, s \in {None, 1}}

GeneralRequests(c) ==
    {BookTicketRequest(c, l) : l \in LegLists(GeneralLegs)}
      \cup {BookSeatRequest(c, f, 1) : f \in Flights}

\* caller 1 is customer 1; the others are customer 1 or 2
Init ==
    \E q \in [Flights -> 0..MaxQuota],
       requests \in [1..NumCallers -> GeneralRequests(1) \cup GeneralRequests(2)] :
        /\ requests[1].user_id = 1
        /\ InitWith(q, {}, AllAvailable, requests, FALSE)

Next ==
    \/ \E p \in Procs : CheckFlight(p)
    \/ \E p \in Procs : SelectFlight(p)
    \/ \E p \in Procs : UpdateFlight(p)
    \/ \E p \in Procs : InsertTicket(p)
    \/ \E p \in Procs : SelectTicket(p)
    \/ \E p \in Procs : SelectSeat(p)
    \/ \E p \in Procs : UpdateSeat(p)
    \/ \E p \in Procs : RevertSelect(p)
    \/ \E p \in Procs : RevertFlight(p)
    \/ \E p \in Procs : RevertDelete(p)
    \/ \E p \in Procs : RevertSeat(p)

Spec == Init /\ [][Next]_vars

\* ------------------------------- a booking against a booking that may revert
\* customer 1 books 1..MaxLegs flights, existing or not, no seat preferred;
\* concurrently customer 1 or 2 books one flight, with or without seat 1,
\* alone or followed by the flight that does not exist.  Every flight starts
\* with the same quota
RevertingCalls ==
    {<<BookTicketRequest(1, l), BookTicketRequest(c, r)>> :
        l \in LegLists({FlightBookingRequest(f, None) : f \in FlightNumbers}),
        c \in 1..2,
        r \in UNION {{<<FlightBookingRequest(f, s)>>,
                      <<FlightBookingRequest(f, s),
                        FlightBookingRequest(NumFlights + 1, None)>>} :
                        f \in Flights, s \in {None, 1}}}

InitReverting ==
    \E n \in 0..MaxQuota, requests \in RevertingCalls :
        InitWith([f \in Flights |-> n], {}, AllAvailable, requests, FALSE)

SpecReverting == InitReverting /\ [][Next]_vars

\* ------------------------------------- concurrent acquires of one flight's quota
\* every customer books flight 1, no seat preferred, all at once
AcquireCalls ==
    [c \in Customers |-> BookTicketRequest(c, <<FlightBookingRequest(1, None)>>)]

InitAcquire ==
    \E n \in 1..MaxQuota :
        InitWith([f \in Flights |-> n], {}, AllAvailable, AcquireCalls, FALSE)

NextAcquire ==
    \/ \E p \in Procs : CheckFlight(p)
    \/ \E p \in Procs : SelectFlight(p)
    \/ \E p \in Procs : UpdateFlight(p)
    \/ \E p \in Procs : InsertTicket(p)

SpecAcquire == InitAcquire /\ [][NextAcquire]_vars

\* ------------------------------------------- concurrent seat requests, one flight
\* every customer holds a ticket without a seat on flight 1 (ticket c is
\* customer c's) and asks for a seat of it, all at once
HeldTickets ==
    {[id |-> c, customer_id |-> c, flight_id |-> 1, seat_number |-> None] : c \in Customers}

SeatCalls == {[c \in Customers |-> BookSeatRequest(c, 1, target[c])] :
                target \in [Customers -> SeatNumbers]}

InitSeats ==
    \E requests \in SeatCalls :
        InitWith([f \in Flights |-> NumCustomers], HeldTickets, AllAvailable,
                 requests, FALSE)

NextSeats ==
    \/ \E p \in Procs : SelectTicket(p)
    \/ \E p \in Procs : SelectSeat(p)
    \/ \E p \in Procs : UpdateSeat(p)

SpecSeats == InitSeats /\ [][NextSeats]_vars

\* ------------------------------------------------- calls one after the other
\* seat 1 of flight 1 is AVAILABLE or UNAVAILABLE, every other seat AVAILABLE
SeatOneStatuses ==
    {[k \in Flights \X SeatNumbers |-> IF k = <<1, 1>> THEN st ELSE Available] :
        st \in {Available, Unavailable}}

\* caller 1 (customer 1) books 1..MaxLegs flights, preferring no seat, seat 1
\* or a seat that does not exist; caller 2 (customer 1 or 2) books one flight,
\* with or without seat 1.  Either call may come first
SerialLegs ==
    {FlightBookingRequest(f, s) : f \in FlightNumbers, s \in {None, 1, NumSeats + 1}}

SerialCalls ==
    {<<BookTicketRequest(1, l), BookTicketRequest(c, <<FlightBookingRequest(f, s)>>)>> :
        l \in LegLists(SerialLegs), c \in 1..2, f \in Flights, s \in {None, 1}}

\* every flight starts with the same quota
InitSerial ==
    \E n \in 0..MaxQuota, status \in SeatOneStatuses, requests \in SerialCalls :
        InitWith([f \in Flights |-> n], {}, status, requests, TRUE)

SpecSerial == InitSerial /\ [][Next]_vars

\* ----------------------------------- concurrent bookings that prefer a seat
\* customer 1 books 1..MaxLegs flights that exist, no flight twice,
\* preferring any seat number or none on each; customer 2 books flight 1,
\* preferring any seat number or none; every flight has quota for both
SeatedLegs ==
    {FlightBookingRequest(f, s) : f \in Flights, s \in {None} \cup SeatRefs}

SeatedLists ==
    {l \in LegLists(SeatedLegs) :
        \A i, j \in DOMAIN l : i # j => l[i].flight_number # l[j].flight_number}

SeatedCalls ==
    {<<BookTicketRequest(1, l), BookTicketRequest(2, <<FlightBookingRequest(1, s)>>)>> :
        l \in SeatedLists, s \in {None} \cup SeatRefs}

InitSeated ==
    \E status \in SeatOneStatuses, requests \in SeatedCalls :
        InitWith([f \in Flights |-> MaxQuota], {}, status, requests, FALSE)

NextSeated ==
    \/ \E p \in Procs : CheckFlight(p)
    \/ \E p \in Procs : SelectFlight(p)
    \/ \E p \in Procs : UpdateFlight(p)
    \/ \E p \in Procs : InsertTicket(p)
    \/ \E p \in Procs : SelectTicket(p)
    \/ \E p \in Procs : SelectSeat(p)
    \/ \E p \in Procs : UpdateSeat(p)

SpecSeated == InitSeated /\ [][NextSeated]_vars

\* ----------------------------------- seat requests after bookings, one by one
\* customers 1 and 2 each book flight 1, preferring a seat or none, and a
\* customer asks for a seat (existing or not) on a flight (existing or not);
\* the three calls are issued one after the other, in any order
ChangeCalls ==
    {<<BookTicketRequest(1, <<FlightBookingRequest(1, s1)>>),
       BookTicketRequest(2, <<FlightBookingRequest(1, s2)>>),
       BookSeatRequest(c, f, s)>> :
        s1 \in {None} \cup SeatNumbers, s2 \in {None} \cup SeatNumbers,
        c \in Customers, f \in FlightNumbers, s \in SeatRefs}

InitChange ==
    \E n \in 0..MaxQuota, status \in SeatOneStatuses, requests \in ChangeCalls :
        InitWith([f \in Flights |-> n], {}, status, requests, TRUE)

SpecChange == InitChange /\ [][NextSeated]_vars

\* ------------------------------- a seat request against a stream of others
\* seat requests customer 2 sends in sequence
SeatMoves == 6

\* every customer holds a ticket without a seat on flight 1; customer 1 asks
\* for a seat once, while customer 2 asks for seat 1, then seat 2, then
\* seat 1, ..., each request sent when the one before has returned
ContendedCalls ==
    {[p \in 1..(SeatMoves + 1) |->
        IF p = 1 THEN BookSeatRequest(1, 1, s)
        ELSE BookSeatRequestAfter(2, 1, IF p % 2 = 0 THEN 1 ELSE 2,
                                  IF p = 2 THEN 0 ELSE p - 1)] : s \in SeatNumbers}

InitContended ==
    \E requests \in ContendedCalls :
        InitWith([f \in Flights |-> NumCustomers], HeldTickets, AllAvailable,
                 requests, FALSE)

SpecContended == InitContended /\ [][NextSeats]_vars

\* --------------------------------------------------- tickets booked earlier
\* customer 2 may hold a ticket (id 1) on a flight
EarlierTickets ==
    {{}} \cup {{[id |-> 1, customer_id |-> 2, flight_id |-> g, seat_number |-> None]} :
                 g \in Flights}

\* ------------------------------- bookings and a seat request, all concurrent
\* customer 3 holds a ticket (id 1) without a seat on flight 1
HeldByThree == {[id |-> 1, customer_id |-> 3, flight_id |-> 1, seat_number |-> None]}

\* customers 1 and 2 each book flight 1, preferring a seat or none, and
\* customer 3 asks for a seat of flight 1, all at once
ConflictCalls ==
    {<<BookTicketRequest(1, <<FlightBookingRequest(1, s1)>>),
       BookTicketRequest(2, <<FlightBookingRequest(1, s2)>>),
       BookSeatRequest(3, 1, s3)>> :
        s1 \in {None} \cup SeatNumbers, s2 \in {None} \cup SeatNumbers,
        s3 \in SeatNumbers}

\* flight 1 has a ticket left for one of the two bookings, or for both
InitConflicts ==
    \E n \in 2..(MaxQuota + 1), requests \in ConflictCalls :
        InitWith([f \in Flights |-> n], HeldByThree, AllAvailable, requests, FALSE)

SpecConflicts == InitConflicts /\ [][NextSeated]_vars

\* ------------------------------------- a booking that rolls back several flights
\* customer 1 books flights 1..MaxLegs, preferring seat 1 or none on each,
\* and then a flight that fails (flight 1 again, or a flight that does not
\* exist); concurrently customer 2 books one flight
RollbackCalls ==
    {<<BookTicketRequest(1,
          [k \in 1..(MaxLegs + 1) |->
              IF k <= MaxLegs THEN FlightBookingRequest(k, s[k])
              ELSE FlightBookingRequest(last, None)]),
       BookTicketRequest(2, <<FlightBookingRequest(f, None)>>)>> :
        s \in [1..MaxLegs -> {None, 1}], last \in {1, NumFlights + 1}, f \in Flights}

InitRollback ==
    \E n \in 1..MaxQuota, requests \in RollbackCalls :
        InitWith([f \in Flights |-> n], {}, AllAvailable, requests, FALSE)

SpecRollback == InitRollback /\ [][Next]_vars

\* ------------------------- concurrent seat requests, several for one customer
\* every customer holds a ticket without a seat on flight 1; each caller
\* asks for a seat of flight 1 for customer 1 or 2, all at once, so that a
\* customer may have several requests running
InitShared ==
    \E requests \in [1..(NumCallers + 1) ->
                        {BookSeatRequest(c, 1, n) : c \in 1..2, n \in SeatNumbers}] :
        InitWith([f \in Flights |-> NumCustomers], HeldTickets, AllAvailable,
                 requests, FALSE)

SpecShared == InitShared /\ [][NextSeats]_vars

\* ------------------------------------------ a lone booking, flights unversioned
\* a flight is inserted with version 1 or without a version (the column is
\* `version INT NULL`); every flight has the same quota; customer 1 books
\* 1..MaxLegs flights and no other call is made
InitUnversioned ==
    \E n \in 0..MaxQuota, v \in [Flights -> {NULL, 1}], status \in SeatOneStatuses,
       l \in LegLists(SerialLegs) :
        InitFlights([f \in Flights |-> n], {}, status, <<BookTicketRequest(1, l)>>,
                    FALSE, DefaultDated, DefaultRoutes,
                    [f \in Flights |-> [available_tickets |-> n, version |-> v[f]]])

SpecUnversioned == InitUnversioned /\ [][Next]_vars

\* ------------------------------------------- concurrent calls, fairly scheduled
\* customer 3 holds a ticket without a seat on flight 1.  Customer 1 books
\* flight 1 and then flight 1 again, flight 2 or a flight that does not
\* exist; customer 2 books flight 1; customer 3 asks for seat 1 of flight 1;
\* the bookings of flight 1 prefer seat 1 or none.  All calls run at once
FairCalls ==
    {<<BookTicketRequest(1, <<FlightBookingRequest(1, s1), FlightBookingRequest(g, None)>>),
       BookTicketRequest(2, <<FlightBookingRequest(1, s2)>>),
       BookSeatRequest(3, 1, 1)>> :
        s1 \in {None, 1}, s2 \in {None, 1}, g \in {1, 2, NumFlights + 1}}

InitFair ==
    \E n \in 1..(MaxQuota + 1), requests \in FairCalls :
        InitWith([f \in Flights |-> n], HeldByThree, AllAvailable, requests, FALSE)

\* a step of the call of caller p
CallStep(p) ==
    \/ CheckFlight(p) \/ SelectFlight(p) \/ UpdateFlight(p) \/ InsertTicket(p)
    \/ SelectTicket(p) \/ SelectSeat(p) \/ UpdateSeat(p)
    \/ RevertSelect(p) \/ RevertFlight(p) \/ RevertDelete(p) \/ RevertSeat(p)

\* the runtime polls every task that can go on: no call is left waiting
\* forever while it has a step to take
Fairness == \A p \in 1..3 : WF_vars(CallStep(p))

SpecFair == InitFair /\ [][Next]_vars /\ Fairness

\* ------------------------------- bookings, seat requests and compensation
\* customer 3 holds a ticket without a seat on flight 1, whose seat 1 is
\* AVAILABLE or UNAVAILABLE; flight 2 was inserted with version 1 or without
\* a version.  Customer 1 books flight 1, preferring a seat or none, and
\* then flight 2 or a flight that does not exist; concurrently customer 1
\* or 3 asks for a seat of flight 1, or customer 2 books flight 1
FrameCalls ==
    {<<BookTicketRequest(1, <<FlightBookingRequest(1, s1), FlightBookingRequest(g, None)>>),
       r>> :
        s1 \in {None} \cup SeatNumbers, g \in {2, NumFlights + 1},
        r \in {BookSeatRequest(c, 1, s) : c \in {1, 3}, s \in SeatNumbers}
               \cup {BookTicketRequest(2, <<FlightBookingRequest(1, s)>>) : s \in {None, 1}}}

InitFrame ==
    \E n \in 1..(MaxQuota + 1), v \in {NULL, 1}, status \in SeatOneStatuses,
       requests \in FrameCalls :
        InitFlights([f \in Flights |-> n], HeldByThree, status, requests, FALSE,
                    DefaultDated, DefaultRoutes,
                    [f \in Flights |->
                        IF f = 2 THEN [available_tickets |-> n, version |-> v]
                        ELSE InitialFlights([h \in Flights |-> n], HeldByThree)[f]])

SpecFrame == InitFrame /\ [][Next]_vars

\* ============================================================ flight service
\* dates flights are scheduled on
NumDates == 3
Dates == 1..NumDates

\* the orders in which fetch_all may return the rows S of a SELECT
Orderings(S) ==
    {o \in [1..Cardinality(S) -> S] : \A i, j \in 1..Cardinality(S) : i # j => o[i] # o[j]}

\* SELECT flight_id FROM flight WHERE flight_number = ? AND flight_date = ?
FlightByNumberAndDate(flight_number, flight_date) ==
    {f \in DOMAIN flight_dated : /\ flight_dated[f].flight_number = flight_number
                                 /\ flight_dated[f].flight_date = flight_date}

\* a selection of the seats that are not BOOKED
SeatSelectWhereNotBooked(row) == row.seat_status # Booked

\* ... AND seat_status = 'AVAILABLE'
SeatSelectWhere(row) == row.seat_status = Available

\* SELECT seat_number FROM seat_info WHERE flight_id = ? AND seat_status = 'AVAILABLE'
AvailableSeats(flight_id) ==
    {k[2] : k \in {k \in DOMAIN seat_info : k[1] = flight_id /\ SeatSelectWhere(seat_info[k])}}

\* get_available_seats: the flight is looked up and its seats are selected;
\* no call inserts or deletes a flight, so the two SELECTs are one step
GetAvailableSeats(p) ==
    /\ proc[p].pc = "gs_select"
    /\ Scheduled(p)
    /\ pre' = Snapshot(p)
    /\ LET found == FlightByNumberAndDate(calls[p].flight_number, calls[p].flight_date)
       IN  IF found = {}
           THEN proc' = [proc EXCEPT ![p].pc = "done", ![p].result = NotFound]
           ELSE \E f \in found : \E available_seats \in Orderings(AvailableSeats(f)) :
                  proc' = [proc EXCEPT ![p].pc = "done", ![p].result = "Ok",
                                       ![p].response = available_seats]
    /\ UNCHANGED <<flight, seat_info, ticket, next_id, calls, other_tables, quota, serial>>

\* a date test that leaves the last day of the range out
DateMatchesBeforeEnd(flight_date, departure_date, end_date) ==
    IF end_date = None THEN flight_date = departure_date
    ELSE departure_date <= flight_date /\ flight_date < end_date

\* f.flight_date = ?, or f.flight_date BETWEEN ? AND ? when end_date is given
DateMatches(flight_date, departure_date, end_date) ==
    IF end_date = None THEN flight_date = departure_date
    ELSE departure_date <= flight_date /\ flight_date <= end_date

\* a test that lets a flight with no ticket left through
TicketsLeftOrNone(row) == row.available_tickets >= 0

\* ... AND f.available_tickets > 0
TicketsLeft(row) == row.available_tickets > 0

\* the WHERE clause of search_flights over flight JOIN flight_route
SearchWhere(f, query) ==
    /\ flight_dated[f].flight_number \in DOMAIN flight_route
    /\ flight_route[flight_dated[f].flight_number].departure_city = query.departure_city
    /\ flight_route[flight_dated[f].flight_number].destination_city = query.destination_city
    /\ DateMatches(flight_dated[f].flight_date, query.departure_date, query.end_date)
    /\ TicketsLeft(flight[f])

\* the FlightDetail of flight row f
FlightDetail(f) ==
    [flight_id |-> f,
     flight_number |-> flight_dated[f].flight_number,
     departure_city |-> flight_route[flight_dated[f].flight_number].departure_city,
     destination_city |-> flight_route[flight_dated[f].flight_number].destination_city,
     available_tickets |-> flight[f].available_tickets,
     flight_date |-> flight_dated[f].flight_date]

\* search_flights: one SELECT, its rows in any order
SearchFlights(p) ==
    /\ proc[p].pc = "sf_select"
    /\ Scheduled(p)
    /\ pre' = Snapshot(p)
    /\ \E o \in Orderings({f \in DOMAIN flight : SearchWhere(f, calls[p].query)}) :
          proc' = [proc EXCEPT ![p].pc = "done", ![p].result = "Ok",
                               ![p].response = [i \in DOMAIN o |-> FlightDetail(o[i])]]
    /\ UNCHANGED <<flight, seat_info, ticket, next_id, calls, other_tables, quota, serial>>

\* =============================================================== get_history
\* i32::to_string, for a number that is not negative
Digit(d) == CASE d = 0 -> "0" [] d = 1 -> "1" [] d = 2 -> "2" [] d = 3 -> "3"
              [] d = 4 -> "4" [] d = 5 -> "5" [] d = 6 -> "6" [] d = 7 -> "7"
              [] d = 8 -> "8" [] d = 9 -> "9"

RECURSIVE to_string(_)
to_string(n) == IF n < 10 THEN Digit(n) ELSE to_string(n \div 10) \o Digit(n % 10)

\* a rendering that prints the missing seat as a number
SeatTextAlwaysNumber(seat_number) == to_string(seat_number)

\* seat_number of a BookingHistoryDetail: Some(s) => s.to_string()
SeatText(seat_number) ==
    IF seat_number = None THEN "Not Selected" ELSE to_string(seat_number)

\* an order by flight date ascending
DateOrderAscending(earlier, later) == earlier <= later

\* ORDER BY f.flight_date DESC: may a row of date `earlier` precede one of `later`
DateOrder(earlier, later) == earlier >= later

\* the rows of ticket JOIN flight JOIN flight_route of a customer
HistoryRows(customer_id) ==
    {t \in ticket : /\ t.customer_id = customer_id
                    /\ t.flight_id \in DOMAIN flight_dated
                    /\ flight_dated[t.flight_id].flight_number \in DOMAIN flight_route}

\* the BookingHistoryDetail of ticket row t
HistoryDetail(t) ==
    [flight_number |-> flight_dated[t.flight_id].flight_number,
     seat_number |-> SeatText(t.seat_number),
     departure_city |-> flight_route[flight_dated[t.flight_id].flight_number].departure_city,
     destination_city |-> flight_route[flight_dated[t.flight_id].flight_number].destination_city,
     flight_date |-> flight_dated[t.flight_id].flight_date]

\* get_history: one SELECT; rows of the same date come in any order
GetHistory(p) ==
    /\ proc[p].pc = "gh_select"
    /\ Scheduled(p)
    /\ pre' = Snapshot(p)
    /\ \E o \in Orderings(HistoryRows(calls[p].user_id)) :
          /\ \A i, j \in DOMAIN o :
                i < j => DateOrder(flight_dated[o[i].flight_id].flight_date,
                                   flight_dated[o[j].flight_id].flight_date)
          /\ proc' = [proc EXCEPT ![p].pc = "done", ![p].result = "Ok",
                                  ![p].response = [i \in DOMAIN o |-> HistoryDetail(o[i])]]
    /\ UNCHANGED <<flight, seat_info, ticket, next_id, calls, other_tables, quota, serial>>

\* ============================================================= register_user
\* validate_gender
ValidGender(gender) == gender = "male" \/ gender = "female"

\* SELECT id FROM user WHERE username = ?
UsersNamed(username) == {u \in user : u.username = username}

\* request.validate(), then the SELECT: Conflict when the username exists
RegisterCheck(p) ==
    /\ proc[p].pc = "ru_check"
    /\ Scheduled(p)
    /\ pre' = Snapshot(p)
    /\ proc' = [proc EXCEPT ![p] =
          IF ~ValidGender(calls[p].gender)
          THEN [proc[p] EXCEPT !.pc = "done", !.result = ValidationError]
          ELSE IF UsersNamed(calls[p].username) # {}
          THEN [proc[p] EXCEPT !.pc = "done", !.result = Conflict]
          ELSE [proc[p] EXCEPT !.pc = "ru_user"]]
    /\ UNCHANGED <<flight, seat_info, ticket, next_id, calls, quota, serial, other_tables>>

\* a user table without the unique index
UniqueUsernameUnchecked(username) == TRUE

\* CONSTRAINT user_username_uindex UNIQUE (username)
UniqueUsername(username) == UsersNamed(username) = {}

\* INSERT INTO user: the id comes from the counter, which InnoDB advances
\* even when the unique index rejects the row
RegisterInsertUser(p) ==
    /\ proc[p].pc = "ru_user"
    /\ next_user_id' = next_user_id + 1
    /\ IF UniqueUsername(calls[p].username)
       THEN /\ user' = user \cup {[id |-> next_user_id, username |-> calls[p].username]}
            /\ proc' = [proc EXCEPT ![p].pc = "ru_info",
                                    ![p].last_insert_id = next_user_id,
                                    ![p].created = {next_user_id}]
       ELSE /\ user' = user
            /\ proc' = [proc EXCEPT ![p].pc = "done", ![p].result = DatabaseError]
    /\ UNCHANGED <<flight, seat_info, ticket, next_id, calls, quota, serial, pre,
                   flight_dated, flight_route, customer_info>>

\* INSERT INTO customer_info (id, ...) VALUES (last_insert_id, ...); Ok(id)
RegisterInsertInfo(p) ==
    /\ proc[p].pc = "ru_info"
    /\ customer_info' = customer_info \cup {proc[p].last_insert_id}
    /\ proc' = [proc EXCEPT ![p].pc = "done", ![p].result = "Ok",
                            ![p].response = <<proc[p].last_insert_id>>]
    /\ UNCHANGED <<flight, seat_info, ticket, next_id, calls, quota, serial, pre,
                   flight_dated, flight_route, user, next_user_id>>

\* ----------------------------------------------------------------- requests
GetAvailableSeatsRequest(flight_number, flight_date) ==
    [op |-> "get_available_seats", flight_number |-> flight_number,
     flight_date |-> flight_date]

FlightSearchQuery(departure_city, destination_city, departure_date, end_date) ==
    [departure_city |-> departure_city, destination_city |-> destination_city,
     departure_date |-> departure_date, end_date |-> end_date]

SearchFlightsRequest(query) == [op |-> "search_flights", query |-> query]

GetHistoryRequest(user_id) == [op |-> "get_history", user_id |-> user_id]

UserRegistrationRequest(username, gender) ==
    [op |-> "register_user", username |-> username, gender |-> gender]

\* ------------------------------------- the seats of a flight, between bookings
\* customer 1 books flight 1 preferring a seat or none, a customer asks for
\* a seat of flight 1, and the available seats of a flight number and date
\* are asked for; the three calls are issued one after the other, in any order
AvailableCalls ==
    {<<BookTicketRequest(1, <<FlightBookingRequest(1, s1)>>),
       BookSeatRequest(c, 1, s),
       GetAvailableSeatsRequest(f, d)>> :
        s1 \in {None} \cup SeatNumbers, c \in 1..2, s \in SeatNumbers,
        f \in FlightNumbers, d \in 1..2}

InitAvailable ==
    \E n \in 1..MaxQuota, status \in SeatOneStatuses, requests \in AvailableCalls :
        InitWith([f \in Flights |-> n], {}, status, requests, TRUE)

NextAvailable ==
    \/ \E p \in Procs : CheckFlight(p)
    \/ \E p \in Procs : SelectFlight(p)
    \/ \E p \in Procs : UpdateFlight(p)
    \/ \E p \in Procs : InsertTicket(p)
    \/ \E p \in Procs : SelectTicket(p)
    \/ \E p \in Procs : SelectSeat(p)
    \/ \E p \in Procs : UpdateSeat(p)
    \/ \E p \in Procs : GetAvailableSeats(p)

SpecAvailable == InitAvailable /\ [][NextAvailable]_vars

\* --------------------------------------------- a search before or after a booking
\* routes flight 1 may fly
SearchRoutes ==
    {[departure_city |-> "Toronto", destination_city |-> "Vancouver"],
     [departure_city |-> "Vancouver", destination_city |-> "Toronto"],
     [departure_city |-> "Toronto", destination_city |-> "Montreal"]}

\* flight f is flight number f on any date; flight 1 flies any of the routes,
\* the other flights Toronto - Vancouver; every flight has the same quota;
\* customer 1 books flight 1, and flights out of Toronto are searched for,
\* on a date or over a range of dates, before or after the booking
InitSearch ==
    \E n \in 0..MaxQuota, date \in [Flights -> Dates], route \in SearchRoutes,
       destination_city \in Cities \ {"Toronto"},
       departure_date \in Dates, end_date \in {None} \cup Dates :
        InitTables([f \in Flights |-> n], {}, AllAvailable,
                   <<BookTicketRequest(1, <<FlightBookingRequest(1, None)>>),
                     SearchFlightsRequest(FlightSearchQuery("Toronto", destination_city,
                                                            departure_date, end_date))>>,
                   TRUE,
                   [f \in Flights |-> [flight_number |-> f, flight_date |-> date[f]]],
                   [k \in Flights |-> IF k = 1 THEN route ELSE DefaultRoutes[k]])

NextSearch ==
    \/ \E p \in Procs : CheckFlight(p)
    \/ \E p \in Procs : SelectFlight(p)
    \/ \E p \in Procs : UpdateFlight(p)
    \/ \E p \in Procs : InsertTicket(p)
    \/ \E p \in Procs : SearchFlights(p)

SpecSearch == InitSearch /\ [][NextSearch]_vars

\* ------------------------------------------- the history of a customer's tickets
\* flights customer 1 books: 1..MaxLegs flights that exist, no flight twice,
\* preferring seat 1 or none on each
HistoryLists ==
    {l \in LegLists({FlightBookingRequest(f, s) : f \in Flights, s \in {None, 1}}) :
        \A i, j \in DOMAIN l : i # j => l[i].flight_number # l[j].flight_number}

\* flight f is flight number f on any date and has quota for every caller;
\* customer 2 may hold a ticket on a flight; customer 1 books, and the
\* history of customer 1 or 2 is asked for, before or after
InitHistory ==
    \E date \in [Flights -> Dates], rows \in EarlierTickets, l \in HistoryLists,
       c \in 1..2 :
        InitTables([f \in Flights |-> MaxQuota], rows, AllAvailable,
                   <<BookTicketRequest(1, l), GetHistoryRequest(c)>>,
                   TRUE,
                   [f \in Flights |-> [flight_number |-> f, flight_date |-> date[f]]],
                   DefaultRoutes)

NextHistory ==
    \/ \E p \in Procs : CheckFlight(p)
    \/ \E p \in Procs : SelectFlight(p)
    \/ \E p \in Procs : UpdateFlight(p)
    \/ \E p \in Procs : InsertTicket(p)
    \/ \E p \in Procs : SelectTicket(p)
    \/ \E p \in Procs : SelectSeat(p)
    \/ \E p \in Procs : UpdateSeat(p)
    \/ \E p \in Procs : GetHistory(p)

SpecHistory == InitHistory /\ [][NextHistory]_vars

\* ------------------------------------------------- concurrent registrations
\* usernames asked for: that of customer 1, and two that no user has
RegisterNames == {1, NumCustomers + 1, NumCustomers + 2}

\* every caller registers, concurrently, under one of the names, with a
\* gender that is valid or not
InitUsers ==
    \E name \in [1..(NumCallers + 1) -> RegisterNames],
       gender \in [1..(NumCallers + 1) -> {"male", "other"}] :
        InitWith([f \in Flights |-> MaxQuota], {}, AllAvailable,
                 [p \in 1..(NumCallers + 1) |->
                     UserRegistrationRequest(name[p], gender[p])],
                 FALSE)

NextUsers ==
    \/ \E p \in Procs : RegisterCheck(p)
    \/ \E p \in Procs : RegisterInsertUser(p)
    \/ \E p \in Procs : RegisterInsertInfo(p)

SpecUsers == InitUsers /\ [][NextUsers]_vars

\* ===================================================================== claims
AllDone == \A p \in Procs : Done(p)
Returned(p, r) == Done(p) /\ proc[p].result = r
OkCalls == {p \in Procs : Returned(p, "Ok")}
FailedCalls == {p \in Procs : Done(p) /\ proc[p].result # "Ok"}
TicketsOn(f) == {t \in ticket : t.flight_id = f}

\* the revert of an existing booking failed and `?` returned its error
CompensationFailed(p) == Done(p) /\ proc[p].rev # 0

\* C1: N customers book flight 1 (quota Q <= N, no seat) concurrently: when
\* all calls have returned, exactly Q returned Ok and the other N - Q the
\* fully-booked error, available_tickets is 0 and the flight has Q tickets.
C1_NoOversell ==
    AllDone =>
        /\ Cardinality(OkCalls) = quota[1]
        /\ Cardinality(FailedCalls) = Cardinality(Procs) - quota[1]
        /\ \A p \in FailedCalls : proc[p].result = ValidationError
        /\ flight[1].available_tickets = 0
        /\ Cardinality(TicketsOn(1)) = quota[1]

\* C1 witness: quota 2, all calls returned, two Ok and one rejected
C1_Witness ==
    /\ AllDone
    /\ quota[1] = 2
    /\ Cardinality(OkCalls) = 2
    /\ FailedCalls # {}
    /\ flight[1].available_tickets = 0

\* the callers of SpecSeats that ask for seat s
Targeting(s) == {p \in Procs : IsBookSeat(p) /\ calls[p].seat_number = s}

\* C2: customers holding a seatless ticket on flight 1 ask for (available)
\* seats concurrently: when all calls have returned, of the calls for one
\* seat exactly one returned Ok, the seat is BOOKED and exactly one ticket
\* has its number.
C2_NoDoubleSeat ==
    AllDone =>
        \A s \in SeatNumbers : Targeting(s) # {} =>
            /\ Cardinality(Targeting(s) \cap OkCalls) = 1
            /\ Targeting(s) \ OkCalls \subseteq FailedCalls
            /\ seat_info[<<1, s>>].seat_status = Booked
            /\ Cardinality({t \in TicketsOn(1) : t.seat_number = s}) = 1

\* C2 witness: three calls for seat 1 returned, one Ok and two rejected
C2_Witness ==
    /\ AllDone
    /\ Cardinality(Targeting(1)) >= 3
    /\ Cardinality(Targeting(1) \cap OkCalls) = 1
    /\ Cardinality(Targeting(1) \cap FailedCalls) >= 2

\* C3: available_tickets of a flight is never negative, reverts included.
C3_NeverNegative == \A f \in Flights : flight[f].available_tickets >= 0

\* C3 witness: a call is reverting a booking while a flight with quota is
\* fully booked
C3_Witness ==
    /\ \E p \in Procs : proc[p].pc = "rv_delete"
    /\ \E f \in Flights : quota[f] > 0 /\ flight[f].available_tickets = 0

\* C4: at most one ticket row references a given (flight, seat_number).
C4_OneTicketPerSeat ==
    \A t1, t2 \in ticket :
        (t1.flight_id = t2.flight_id /\ t1.seat_number # None
            /\ t1.seat_number = t2.seat_number) => t1 = t2

\* C5: at most one ticket row per (customer, flight).
C5_OneTicketPerCustomerFlight ==
    \A t1, t2 \in ticket :
        (t1.customer_id = t2.customer_id /\ t1.flight_id = t2.flight_id) => t1 = t2

\* C6: a book_ticket that returned Ok has a ticket row for every flight of
\* its request, and one that returned an error left none of the rows it
\* inserted.
C6_AllOrNothing ==
    \A p \in Procs : (IsBookTicket(p) /\ Done(p)) =>
        IF proc[p].result = "Ok"
        THEN \A i \in 1..Len(calls[p].flights) :
                TicketsOf(calls[p].user_id, calls[p].flights[i].flight_number) # {}
        ELSE \A t \in ticket : t.id \notin proc[p].created

\* C8: when a flight of the request fails and the reverts succeed,
\* book_ticket returns a ValidationError, whatever the flight's error was.
C8_AggregateValidationError ==
    \A p \in Procs :
        (IsBookTicket(p) /\ Done(p) /\ proc[p].leg_error # "" /\ ~CompensationFailed(p))
            => proc[p].result = ValidationError

\* C8 witness: the second flight failed with a BadRequest, the first was
\* reverted, and the call returned a ValidationError
C8_Witness ==
    \E p \in Procs :
        /\ IsBookTicket(p) /\ Done(p) /\ ~CompensationFailed(p)
        /\ proc[p].leg_error = BadRequest
        /\ proc[p].flight_booking_results # << >>
        /\ proc[p].result = ValidationError

\* the call that started last in a serial run has returned: the tables are
\* as it left them, and pre holds the tables it found
JustReturned(p) == serial /\ pre.caller = p /\ Done(p)

\* a two-flight book_ticket whose first flight was booked and whose second
\* flight failed
SecondLegFailed(p) ==
    /\ IsBookTicket(p)
    /\ Len(calls[p].flights) = 2
    /\ Len(proc[p].flight_booking_results) = 1
    /\ proc[p].leg_error # ""

\* C7: with no other call running, a two-flight book_ticket whose second
\* flight fails leaves the first flight's available_tickets as it found it
\* and the seat the first flight obtained AVAILABLE.
C7_CompensationRestores ==
    \A p \in Procs : (JustReturned(p) /\ SecondLegFailed(p)) =>
        LET f1 == calls[p].flights[1].flight_number
            b == proc[p].flight_booking_results[1]
        IN  /\ flight[f1].available_tickets = pre.flight[f1].available_tickets
            /\ b.seat_number # None =>
                  seat_info[<<f1, b.seat_number>>].seat_status = Available

\* C7 witness: the first flight had quota and gave its seat 1, the second
\* flight failed, and the call has returned
C7_Witness ==
    \E p \in Procs :
        /\ JustReturned(p) /\ SecondLegFailed(p)
        /\ pre.flight[calls[p].flights[1].flight_number].available_tickets > 0
        /\ proc[p].flight_booking_results[1].seat_number = 1
        /\ proc[p].result = ValidationError

\* the seat a flight of a returned book_ticket preferred could not be booked
SeatNotObtained(p, i) ==
    /\ calls[p].flights[i].preferred_seat # None
    /\ proc[p].flight_booking_results[i].seat_number # calls[p].flights[i].preferred_seat

\* the ticket row of the i-th flight of a returned book_ticket, as the
\* response describes it
LegTicket(p, i) ==
    {t \in ticket : /\ t.id = proc[p].flight_booking_results[i].ticket_id
                    /\ t.customer_id = calls[p].user_id
                    /\ t.flight_id = calls[p].flights[i].flight_number
                    /\ t.seat_number = proc[p].flight_booking_results[i].seat_number}

\* C9: two customers book flights with quota, preferring seats,
\* concurrently: a flight whose preferred seat could not be booked (no such
\* seat, UNAVAILABLE, or taken by the other call) is still booked: the call
\* returns Ok with a response for every flight, that flight's response has
\* no seat, its ticket row exists without a seat, and when all calls have
\* returned every flight's available_tickets is down by one per ticket.
C9_SeatBestEffort ==
    /\ \A p \in Procs : Done(p) =>
          /\ proc[p].result = "Ok"
          /\ Len(proc[p].flight_booking_results) = Len(calls[p].flights)
          /\ \A i \in 1..Len(calls[p].flights) :
                /\ LegTicket(p, i) # {}
                /\ SeatNotObtained(p, i) =>
                      proc[p].flight_booking_results[i].seat_number = None
                /\ (\/ calls[p].flights[i].preferred_seat \notin SeatNumbers
                    \/ pre.seat_info[<<calls[p].flights[i].flight_number,
                                       calls[p].flights[i].preferred_seat>>].seat_status
                         # Available)
                      => proc[p].flight_booking_results[i].seat_number = None
    /\ AllDone =>
          \A f \in Flights :
             /\ flight[f].available_tickets = quota[f] - Cardinality(TicketsOn(f))
             /\ Cardinality(TicketsOn(f))
                  = Cardinality({p \in Procs : \E i \in 1..Len(calls[p].flights) :
                                                  calls[p].flights[i].flight_number = f})

\* C9 witness: both calls preferred seat 1 of flight 1, which was AVAILABLE;
\* both returned Ok, one without the seat, and its ticket has no seat
C9_Witness ==
    /\ AllDone
    /\ pre.seat_info[<<1, 1>>].seat_status = Available
    /\ \A p \in Procs : calls[p].flights[1] = FlightBookingRequest(1, 1)
    /\ \E p \in Procs :
          /\ proc[p].result = "Ok"
          /\ SeatNotObtained(p, 1)
          /\ \E t \in LegTicket(p, 1) : t.seat_number = None
    /\ flight[1].available_tickets = quota[1] - 2

\* the i-th flight of a returned book_ticket has the seat it preferred: in
\* the response, BOOKED in seat_info, and on the flight's ticket
SeatObtained(p, i) ==
    LET leg == calls[p].flights[i]
        r == proc[p].flight_booking_results[i]
    IN  /\ r.seat_number = leg.preferred_seat
        /\ SeatExists(leg.flight_number, leg.preferred_seat)
        /\ seat_info[<<leg.flight_number, leg.preferred_seat>>].seat_status = Booked
        /\ \E t \in TicketsById(r.ticket_id) :
              t.flight_id = leg.flight_number /\ t.seat_number = leg.preferred_seat

\* C10: with no other call running, a book_ticket that returned Ok has
\* booking_status "Confirmed" exactly when every flight that preferred a seat
\* obtained it, and the soft-warning string otherwise.
C10_ConfirmedIffSeats ==
    \A p \in Procs : (JustReturned(p) /\ IsBookTicket(p) /\ proc[p].result = "Ok") =>
        LET all == \A i \in 1..Len(calls[p].flights) :
                      calls[p].flights[i].preferred_seat # None => SeatObtained(p, i)
        IN  /\ proc[p].booking_status = Confirmed <=> all
            /\ ~all => proc[p].booking_status = SeatUnavailableStatus

\* C10 witness: of two flights that preferred a seat the first obtained it
\* and the second did not; the call returned Ok with the soft warning
C10_Witness ==
    \E p \in Procs :
        /\ JustReturned(p) /\ IsBookTicket(p) /\ proc[p].result = "Ok"
        /\ Len(calls[p].flights) = 2
        /\ SeatObtained(p, 1)
        /\ calls[p].flights[2].preferred_seat # None
        /\ ~SeatObtained(p, 2)
        /\ proc[p].booking_status = SeatUnavailableStatus

\* the tickets the customer of call p held on flight f when the call started
HeldBefore(p, f) ==
    {t \in pre.ticket : t.customer_id = calls[p].user_id /\ t.flight_id = f}

\* C11: with no other call running, a book_ticket whose (first) flight is one
\* the customer already holds a ticket on is rejected (the BadRequest of the
\* flight, returned as a ValidationError), and the flight table and the
\* ticket table are as they were before the call.
C11_RebookRejected ==
    \A p \in Procs :
        (JustReturned(p) /\ IsBookTicket(p)
            /\ HeldBefore(p, calls[p].flights[1].flight_number) # {}) =>
                /\ proc[p].leg_error = BadRequest
                /\ proc[p].result = ValidationError
                /\ flight = pre.flight
                /\ ticket = pre.ticket

\* C11 witness: the flight still had quota, and the call was rejected
C11_Witness ==
    \E p \in Procs :
        /\ JustReturned(p) /\ IsBookTicket(p)
        /\ HeldBefore(p, calls[p].flights[1].flight_number) # {}
        /\ pre.flight[calls[p].flights[1].flight_number].available_tickets > 0
        /\ proc[p].result = ValidationError

\* C12: with no other call running, a book_ticket whose (first) flight
\* exists, is not yet held by the customer and has available_tickets = 0 fails
\* with the fully-booked ValidationError after no attempt to update, and
\* the flight table and the ticket table are as they were before the call.
C12_FullyBookedNoUpdate ==
    \A p \in Procs :
        LET f == calls[p].flights[1].flight_number
        IN  (JustReturned(p) /\ IsBookTicket(p) /\ FlightExists(f)
                /\ HeldBefore(p, f) = {} /\ pre.flight[f].available_tickets = 0) =>
                    /\ proc[p].leg_error = ValidationError
                    /\ proc[p].result = ValidationError
                    /\ proc[p].attempts = 0
                    /\ flight = pre.flight
                    /\ ticket = pre.ticket

\* C12 witness: the flight had quota, the other customer took the last
\* ticket, and the call was rejected
C12_Witness ==
    \E p \in Procs :
        LET f == calls[p].flights[1].flight_number
        IN  /\ JustReturned(p) /\ IsBookTicket(p) /\ FlightExists(f)
            /\ HeldBefore(p, f) = {}
            /\ quota[f] > 0 /\ pre.flight[f].available_tickets = 0
            /\ proc[p].result = ValidationError

\* the seats the customer's tickets on the flight referenced before the call
OldSeats(p) == {t.seat_number : t \in HeldBefore(p, calls[p].flight_number)} \ {None}

\* C13: with no other call running, a book_seat_for_ticket that returned Ok
\* has all its effects (the new seat BOOKED, the old seat AVAILABLE when
\* there was one, the customer's ticket on the new seat, every other seat
\* and ticket as before), and one that returned an error left seat_info
\* and ticket as they were.
C13_SeatAllOrNothing ==
    \A p \in Procs : (JustReturned(p) /\ IsBookSeat(p)) =>
        LET f == calls[p].flight_number
            s == calls[p].seat_number
        IN  IF proc[p].result = "Ok"
            THEN /\ seat_info[<<f, s>>].seat_status = Booked
                 /\ \A o \in OldSeats(p) : seat_info[<<f, o>>].seat_status = Available
                 /\ TicketsOf(calls[p].user_id, f) # {}
                 /\ \A t \in TicketsOf(calls[p].user_id, f) : t.seat_number = s
                 /\ \A k \in DOMAIN seat_info :
                       k \notin {<<f, o>> : o \in OldSeats(p) \cup {s}}
                          => seat_info[k] = pre.seat_info[k]
                 /\ ticket \ TicketsOf(calls[p].user_id, f)
                      = pre.ticket \ HeldBefore(p, f)
            ELSE seat_info = pre.seat_info /\ ticket = pre.ticket

\* C13 witness: a call that moved the customer from a seat to another
\* returned Ok, and a seat of the other customer is BOOKED
C13_Witness ==
    \E p \in Procs :
        /\ JustReturned(p) /\ IsBookSeat(p) /\ proc[p].result = "Ok"
        /\ OldSeats(p) # {}
        /\ pre.ticket # HeldBefore(p, calls[p].flight_number)

\* the call asks for a seat that exists and was not AVAILABLE when the call
\* started, for a customer whose ticket is not on that seat
SeatTaken(p) ==
    /\ IsBookSeat(p)
    /\ HeldBefore(p, calls[p].flight_number) # {}
    /\ calls[p].seat_number \notin OldSeats(p)
    /\ <<calls[p].flight_number, calls[p].seat_number>> \in DOMAIN pre.seat_info
    /\ pre.seat_info[<<calls[p].flight_number, calls[p].seat_number>>].seat_status
          # Available

\* C14: with no other call running, a book_seat_for_ticket for a seat that
\* is BOOKED or UNAVAILABLE returns a Conflict after no attempt to update.
C14_TakenSeatConflict ==
    \A p \in Procs : (JustReturned(p) /\ SeatTaken(p)) =>
        /\ proc[p].result = Conflict
        /\ proc[p].attempts = 0
        /\ seat_info = pre.seat_info

\* C16: with no other call running, a book_seat_for_ticket of a customer
\* without a ticket on the (existing) flight returns a BadRequest and
\* leaves seat_info and ticket as they were.
C16_NoTicketRejected ==
    \A p \in Procs :
        (JustReturned(p) /\ IsBookSeat(p) /\ FlightExists(calls[p].flight_number)
            /\ HeldBefore(p, calls[p].flight_number) = {}) =>
                /\ proc[p].result = BadRequest
                /\ seat_info = pre.seat_info
                /\ ticket = pre.ticket

\* C16 witness: the seat asked for was AVAILABLE, another customer held a
\* ticket on the flight, and the call was rejected
C16_Witness ==
    \E p \in Procs :
        /\ JustReturned(p) /\ IsBookSeat(p) /\ FlightExists(calls[p].flight_number)
        /\ HeldBefore(p, calls[p].flight_number) = {}
        /\ <<calls[p].flight_number, calls[p].seat_number>> \in DOMAIN pre.seat_info
        /\ pre.seat_info[<<calls[p].flight_number, calls[p].seat_number>>].seat_status
              = Available
        /\ \E t \in pre.ticket : t.flight_id = calls[p].flight_number
        /\ proc[p].result = BadRequest

\* C17: with no other call running, a book_seat_for_ticket for the seat the
\* customer's ticket already references returns a BadRequest; the seat is
\* still BOOKED with the version it had, and the ticket table is as it was.
C17_SameSeatRejected ==
    \A p \in Procs :
        (JustReturned(p) /\ IsBookSeat(p) /\ calls[p].seat_number \in OldSeats(p)) =>
            LET k == <<calls[p].flight_number, calls[p].seat_number>>
            IN  /\ proc[p].result = BadRequest
                /\ seat_info[k].seat_status = Booked
                /\ seat_info[k] = pre.seat_info[k]
                /\ ticket = pre.ticket

\* C17 witness: the customer asked again for the seat of its ticket and was
\* rejected
C17_Witness ==
    \E p \in Procs :
        /\ JustReturned(p) /\ IsBookSeat(p) /\ calls[p].seat_number \in OldSeats(p)
        /\ \E t \in TicketsOf(calls[p].user_id, calls[p].flight_number) :
              t.seat_number = calls[p].seat_number
        /\ proc[p].result = BadRequest

\* C18: with no other call running, a book_seat_for_ticket that moves a
\* customer from seat A to an AVAILABLE seat B returns Ok; afterwards B is
\* BOOKED, A is AVAILABLE, the customer's ticket references B, and the
\* versions of A and of B are each one more than before.
C18_SeatChange ==
    \A p \in Procs :
        LET f == calls[p].flight_number
            b == calls[p].seat_number
        IN  (JustReturned(p) /\ IsBookSeat(p) /\ OldSeats(p) # {} /\ b \notin OldSeats(p)
                /\ <<f, b>> \in DOMAIN pre.seat_info
                /\ pre.seat_info[<<f, b>>].seat_status = Available) =>
                    /\ proc[p].result = "Ok"
                    /\ seat_info[<<f, b>>] =
                          [seat_status |-> Booked,
                           version |-> pre.seat_info[<<f, b>>].version + 1]
                    /\ \A a \in OldSeats(p) :
                          seat_info[<<f, a>>] =
                             [seat_status |-> Available,
                              version |-> pre.seat_info[<<f, a>>].version + 1]
                    /\ \A t \in TicketsOf(calls[p].user_id, f) : t.seat_number = b
                    /\ TicketsOf(calls[p].user_id, f) # {}

\* C18 witness: the customer held seat 1 and moved to seat 2
C18_Witness ==
    \E p \in Procs :
        /\ JustReturned(p) /\ IsBookSeat(p) /\ proc[p].result = "Ok"
        /\ OldSeats(p) = {1} /\ calls[p].seat_number = 2
        /\ seat_info[<<calls[p].flight_number, 1>>].seat_status = Available
        /\ seat_info[<<calls[p].flight_number, 2>>].seat_status = Booked

\* C15: a book_seat makes at most 3 attempts at its conditional update, and
\* after a third attempt that affected no row it has returned a Conflict.
C15_BoundedSeatRetry ==
    \A p \in Procs : IsBookSeat(p) =>
        /\ proc[p].attempts <= 3
        /\ (proc[p].attempts = 3 /\ proc[p].result # "Ok") => Returned(p, Conflict)

\* C19: a booking is released once, and its release leaves no ticket for a
\* second release to find: when book_ticket has returned, no booking was
\* compensated twice and the ticket of every booking it compensated is gone.
C19_IdempotentRelease ==
    \A p \in Procs : (IsBookTicket(p) /\ Done(p)) =>
        \A i \in 1..Len(proc[p].reverted) :
            /\ \A j \in 1..Len(proc[p].reverted) :
                  proc[p].reverted[i] = proc[p].reverted[j] => i = j
            /\ TicketsById(proc[p].flight_booking_results[proc[p].reverted[i]].ticket_id)
                  = {}

\* the conditional update call p is about to run will affect no row
ZeroRows(p) ==
    \/ /\ proc[p].pc = "bt_update"
       /\ ~FlightUpdateWhere(Leg(p).flight_number, proc[p].version)
    \/ /\ proc[p].pc = "bs_update"
       /\ ~SeatUpdateWhere(SeatRequest(p).flight_number, SeatRequest(p).seat_number,
                           proc[p].seat_version)

\* C20: a conditional update that affects no row never ends the call and
\* never becomes its error: the step changes no table, records no error,
\* and takes the call back to the read at the top of its loop, so every
\* error a call returns was raised by a check or by a failed statement.
C20_ConflictNeverReturned ==
    [][\A p \in Procs : (ZeroRows(p) /\ proc'[p] # proc[p]) =>
          /\ proc'[p].pc \in {"bt_read", "bs_read"}
          /\ proc'[p].result = ""
          /\ proc'[p].leg_error = proc[p].leg_error
          /\ proc'[p].flight_booking_results = proc[p].flight_booking_results
          /\ UNCHANGED <<flight, seat_info, ticket>>]_vars

\* C20 witness: a booking whose update affected no row read the flight
\* again, found it fully booked and returned that error; and a seat request
\* whose update affected no row returned the seat's ValidationError
C20_Witness ==
    /\ \E p \in Procs :
          /\ IsBookTicket(p) /\ Done(p) /\ proc[p].attempts >= 1
          /\ proc[p].flight_booking_results = << >>
          /\ proc[p].leg_error = ValidationError
          /\ proc[p].result = ValidationError
    /\ \E p \in Procs :
          IsBookSeat(p) /\ Done(p) /\ proc[p].attempts >= 1
             /\ proc[p].result = ValidationError

\* C21: book_ticket returning because a revert failed returns an error that
\* is not the one of a failed flight and that still carries the error of
\* the flight that failed.
C21_CompositeError ==
    \A p \in Procs : CompensationFailed(p) =>
        /\ proc[p].result # BookTicketError(proc[p].leg_error)
        /\ proc[p].result_cause = proc[p].leg_error

\* the conditional updates of call p that affected a row, as <<caller, index>>
CommitsOf(p) == {<<p, i>> : i \in DOMAIN proc[p].commits}
AllCommits == UNION {CommitsOf(p) : p \in Procs}
CommitAt(c) == proc[c[1]].commits[c[2]]

\* C26: no two conditional updates that affected a row of flight carried
\* the same version of the same flight, and an update still to run that
\* carries a version another update committed against will affect no row.
C26_OneCommitPerVersion ==
    /\ \A c, d \in AllCommits : c # d => CommitAt(c) # CommitAt(d)
    /\ \A p \in Procs : proc[p].pc = "bt_update" =>
          \A c \in AllCommits :
             CommitAt(c) = <<Leg(p).flight_number, proc[p].version>>
                => flight[Leg(p).flight_number].version # proc[p].version

\* C26 witness: two calls carry the version a third has committed against
C26_Witness ==
    \E c \in AllCommits :
        Cardinality({p \in Procs : /\ proc[p].pc = "bt_update"
                                   /\ <<Leg(p).flight_number, proc[p].version>>
                                         = CommitAt(c)}) >= 2

\* the number of conditional updates that affected the row of flight f
CommitsOn(f) == Cardinality({c \in AllCommits : CommitAt(c)[1] = f})

\* C27: with no compensation, available_tickets is down by one and version
\* up by one for each conditional update that affected the row, whatever
\* the number of updates that affected none; when all calls have returned
\* that number is the number of calls that returned Ok.
C27_ExactAccounting ==
    /\ \A f \in Flights :
          /\ flight[f].available_tickets = quota[f] - CommitsOn(f)
          /\ flight[f].version = 1 + CommitsOn(f)
    /\ AllDone => CommitsOn(1) = Cardinality(OkCalls)

\* C27 witness: all calls returned; two got a ticket, one of them after an
\* update that affected no row, and one was rejected
C27_Witness ==
    /\ AllDone
    /\ CommitsOn(1) = 2
    /\ flight[1].version = 3
    /\ FailedCalls # {}
    /\ \E p \in OkCalls : proc[p].attempts >= 2

\* C28: every step that changes a flight's available_tickets is taken by a
\* call that carries, as the version it read, the version the row has.
C28_EveryMutationGated ==
    [][\A f \in Flights :
          flight'[f].available_tickets # flight[f].available_tickets =>
             \E p \in Procs : /\ proc'[p] # proc[p]
                               /\ VersionEq(flight[f].version, proc[p].version)]_vars

\* C29: the k-th conditional update of a book_ticket that affected a row is
\* on the k-th flight of its request; and, with no other call running, a
\* book_ticket whose i-th flight failed has booked exactly the i - 1 flights
\* before it, has left the flight row and the seats of every later flight
\* (one not among those i - 1) as they were and has created no ticket on it.
C29_StopAtFirstFailure ==
    \A p \in Procs : IsBookTicket(p) =>
        /\ \A k \in DOMAIN proc[p].commits :
              proc[p].commits[k][1] = calls[p].flights[k].flight_number
        /\ (JustReturned(p) /\ proc[p].leg_error # "") =>
              LET i == proc[p].leg
                  before == {calls[p].flights[k].flight_number : k \in 1..(i - 1)}
              IN  /\ Len(proc[p].flight_booking_results) = i - 1
                  /\ Len(proc[p].commits) = i - 1
                  /\ Cardinality(proc[p].created) = i - 1
                  /\ \A j \in (i + 1)..Len(calls[p].flights) :
                        LET g == calls[p].flights[j].flight_number
                        IN  (FlightExists(g) /\ g \notin before) =>
                               /\ flight[g] = pre.flight[g]
                               /\ \A n \in SeatNumbers :
                                     seat_info[<<g, n>>] = pre.seat_info[<<g, n>>]
                               /\ TicketsOn(g) \subseteq pre.ticket

\* C29 witness: the first flight of a request failed and the second, a
\* flight with tickets left that the customer held no ticket on, was not
\* booked
C29_Witness ==
    \E p \in Procs :
        /\ IsBookTicket(p) /\ JustReturned(p) /\ proc[p].leg_error # ""
        /\ proc[p].leg = 1 /\ Len(calls[p].flights) = 2
        /\ FlightExists(calls[p].flights[2].flight_number)
        /\ calls[p].flights[2].flight_number # calls[p].flights[1].flight_number
        /\ flight[calls[p].flights[2].flight_number].available_tickets > 0
        /\ TicketsOf(calls[p].user_id, calls[p].flights[2].flight_number) = {}

\* C30: a book_ticket that reverted its bookings reverted them last booked
\* first: the i-th revert is of the booking i-th from the end.
C30_ReverseOrder ==
    \A p \in Procs :
        (IsBookTicket(p) /\ Done(p) /\ proc[p].leg_error # "" /\ ~CompensationFailed(p)) =>
            \A i \in DOMAIN proc[p].reverted :
                proc[p].reverted[i] = Len(proc[p].flight_booking_results) + 1 - i

\* the elements of a list
Range(seq) == {seq[i] : i \in DOMAIN seq}

\* C22: with no other call running, get_available_seats of the number and
\* date of a flight returns Ok and each seat number of that flight whose
\* status is AVAILABLE once, and no other; of a number and date no flight
\* has, it returns NotFound.
C22_AvailableSeats ==
    \A p \in Procs : (IsGetAvailableSeats(p) /\ JustReturned(p)) =>
        LET f == calls[p].flight_number
        IN  IF f \in Flights /\ flight_dated[f] = [flight_number |-> f,
                                                  flight_date |-> calls[p].flight_date]
            THEN /\ proc[p].result = "Ok"
                 /\ Range(proc[p].response) =
                       {n \in SeatNumbers : seat_info[<<f, n>>].seat_status = Available}
                 /\ Len(proc[p].response) = Cardinality(Range(proc[p].response))
            ELSE /\ proc[p].result = NotFound
                 /\ proc[p].response = << >>

\* C22 witness: a seat of flight 1 that a call got, and that was AVAILABLE
\* before, is missing from the seats returned, and another seat is there
C22_Witness ==
    \E p \in Procs :
        /\ IsGetAvailableSeats(p) /\ JustReturned(p) /\ proc[p].result = "Ok"
        /\ calls[p].flight_number = 1
        /\ proc[p].response # << >>
        /\ \E n \in SeatNumbers \ Range(proc[p].response) :
              /\ seat_info[<<1, n>>].seat_status = Booked
              /\ \E t \in ticket : t.flight_id = 1 /\ t.seat_number = n

\* does flight row f match the query, by the tables
Matches(f, query) ==
    /\ flight_route[flight_dated[f].flight_number].departure_city = query.departure_city
    /\ flight_route[flight_dated[f].flight_number].destination_city = query.destination_city
    /\ IF query.end_date = None
       THEN flight_dated[f].flight_date = query.departure_date
       ELSE flight_dated[f].flight_date \in query.departure_date..query.end_date
    /\ flight[f].available_tickets > 0

\* C23: with no other call running, search_flights returns Ok and one
\* FlightDetail for each flight whose route has the cities asked for, whose
\* date is departure_date (or within departure_date..end_date when end_date
\* is given) and which has tickets left, and for no other flight; each
\* detail shows the flight's number, date, cities and available_tickets.
C23_SearchFlights ==
    \A p \in Procs : (IsSearchFlights(p) /\ JustReturned(p)) =>
        /\ proc[p].result = "Ok"
        /\ {d.flight_id : d \in Range(proc[p].response)} =
              {f \in Flights : Matches(f, calls[p].query)}
        /\ Len(proc[p].response) = Cardinality({f \in Flights : Matches(f, calls[p].query)})
        /\ \A d \in Range(proc[p].response) :
              /\ d.flight_number = flight_dated[d.flight_id].flight_number
              /\ d.flight_date = flight_dated[d.flight_id].flight_date
              /\ d.departure_city = calls[p].query.departure_city
              /\ d.destination_city = calls[p].query.destination_city
              /\ d.available_tickets = flight[d.flight_id].available_tickets

\* C23 witness: a search over a range of dates, after the booking took the
\* last ticket of flight 1, which matches the cities and flies on the last
\* day of the range: flight 1 is not returned and another flight is
C23_Witness ==
    \E p \in Procs :
        /\ IsSearchFlights(p) /\ JustReturned(p)
        /\ quota[1] > 0 /\ flight[1].available_tickets = 0
        /\ flight_route[1].destination_city = calls[p].query.destination_city
        /\ calls[p].query.end_date = flight_dated[1].flight_date
        /\ calls[p].query.departure_date < calls[p].query.end_date
        /\ proc[p].response # << >>
        /\ \A d \in Range(proc[p].response) : d.flight_id # 1

\* the decimal numerals of the seat numbers
Numerals == <<"1", "2", "3", "4", "5", "6", "7", "8", "9">>

\* C24: with no other call running, get_history of a customer returns Ok
\* and as many rows as the customer holds tickets, each ticket's flight
\* number appearing with its date and with its seat as a numeral, or as
\* "Not Selected" when the ticket has no seat; no row is of a flight the
\* customer holds no ticket on; the dates never increase along the list.
C24_History ==
    \A p \in Procs : (IsGetHistory(p) /\ JustReturned(p)) =>
        LET held == {t \in ticket : t.customer_id = calls[p].user_id}
            rows == proc[p].response
        IN  /\ proc[p].result = "Ok"
            /\ Len(rows) = Cardinality(held)
            /\ \A t \in held : \E i \in DOMAIN rows :
                  /\ rows[i].flight_number = flight_dated[t.flight_id].flight_number
                  /\ rows[i].flight_date = flight_dated[t.flight_id].flight_date
                  /\ rows[i].seat_number = IF t.seat_number = None THEN "Not Selected"
                                           ELSE Numerals[t.seat_number]
            /\ \A i \in DOMAIN rows : \E t \in held :
                  rows[i].flight_number = flight_dated[t.flight_id].flight_number
            /\ \A i, j \in DOMAIN rows : i < j => rows[i].flight_date >= rows[j].flight_date

\* C24 witness: the customer holds two tickets, on flights of different
\* dates, one with a seat and one without, while another customer holds a
\* ticket too
C24_Witness ==
    \E p \in Procs :
        /\ IsGetHistory(p) /\ JustReturned(p)
        /\ Len(proc[p].response) = 2
        /\ proc[p].response[1].flight_date > proc[p].response[2].flight_date
        /\ \E i, j \in 1..2 : /\ proc[p].response[i].seat_number = "Not Selected"
                               /\ proc[p].response[j].seat_number = "1"
        /\ \E t \in ticket : t.customer_id # calls[p].user_id

\* the users and customer_info rows before any call
UsersBefore == RegisteredCustomers

\* C25: no two rows of user share a username or an id; a register_user (of
\* a valid request) under a username that a user had before the call
\* returns Conflict; a call that returned an error inserted no row (a user
\* of its name is another call's), and when all calls have returned the users are those from before and
\* one for each call that returned Ok, each with its customer_info row.
C25_UniqueUsername ==
    /\ \A u, v \in user : (u.username = v.username \/ u.id = v.id) => u = v
    /\ \A p \in Procs : (IsRegisterUser(p) /\ Done(p)) =>
          /\ (ValidGender(calls[p].gender)
               /\ \E u \in UsersBefore : u.username = calls[p].username)
                 => proc[p].result = Conflict
          /\ proc[p].result # "Ok" =>
                 /\ proc[p].created = {}
                 /\ \A u \in user \ UsersBefore :
                        u.username = calls[p].username =>
                           \E q \in Procs \ {p} : proc[q].created = {u.id}
    /\ AllDone =>
          /\ Cardinality(user) = Cardinality(UsersBefore) + Cardinality(OkCalls)
          /\ \A p \in OkCalls :
                [id |-> proc[p].response[1], username |-> calls[p].username] \in user
          /\ customer_info = {u.id : u \in user}

\* C25 witness: one call asked for the name of a user and got Conflict, and
\* two asked for the same new name: one got it, the other's INSERT failed
C25_Witness ==
    /\ AllDone
    /\ \E p, q, r \in Procs :
          /\ proc[p].result = Conflict
          /\ calls[q].username = calls[r].username
          /\ proc[q].result = "Ok"
          /\ proc[r].result = DatabaseError

\* C31: the number of ticket rows of a flight never exceeds the flight's
\* initial quota, whatever calls run and however they interleave.
C31_TicketsWithinQuota ==
    \A f \in Flights : Cardinality(TicketsOn(f)) <= quota[f]

\* C32: when no call is in progress, available_tickets plus the number of
\* ticket rows of a flight is the flight's initial quota.
C32_QuotaConserved ==
    (\A p \in Procs : ~Running(p)) =>
        \A f \in Flights :
            flight[f].available_tickets + Cardinality(TicketsOn(f)) = quota[f]

\* C33: when no call is in progress, the seat a ticket row references is
\* BOOKED.
C33_TicketSeatBooked ==
    (\A p \in Procs : ~Running(p)) =>
        \A t \in ticket : t.seat_number # None =>
            seat_info[<<t.flight_id, t.seat_number>>].seat_status = Booked

\* the customer a call is made for
CustomerOf(p) == calls[p].user_id

\* C39: a step of a call made for customer c neither deletes a ticket row
\* of another customer nor changes its seat_number: every ticket row that a
\* step removes or changes is of the customer of the call that took the step.
C39_OwnTicketsOnly ==
    [][\A t \in ticket : t \notin ticket' =>
          \E p \in Procs : proc'[p] # proc[p] /\ CustomerOf(p) = t.customer_id]_vars

\* the ticket rows that reference seat k = <<flight_id, seat_number>>
TicketsAt(k) == {t \in ticket : t.flight_id = k[1] /\ t.seat_number = k[2]}

\* C34: when no call is in progress, every seat that is BOOKED is
\* referenced by exactly one ticket row.
C34_NoLeakedSeat ==
    (\A p \in Procs : ~Running(p)) =>
        \A k \in DOMAIN seat_info :
            seat_info[k].seat_status = Booked => Cardinality(TicketsAt(k)) = 1

\* C35: with every flight versioned and the calls scheduled fairly, every
\* call eventually returns: at some point all calls have returned.
C35_Termination == <>AllDone

\* C35 witness: all calls have returned, one of them after an update that
\* affected no row, and one after reverting a booking
C35_Witness ==
    /\ AllDone
    /\ \A f \in Flights : flight[f].version # NULL
    /\ \E p \in Procs : proc[p].attempts >= 2
    /\ \E p \in Procs : proc[p].reverted # << >>

\* C36: a book_ticket that runs alone succeeds at its first conditional
\* update: once it has run an update it is not in the loop of
\* book_ticket_for_flight again, whatever the version of the flight row.
C36_LoneBookingFirstUpdate ==
    \A p \in Procs :
        (IsBookTicket(p) /\ proc[p].pc \in {"bt_read", "bt_update"}) => proc[p].attempts = 0

\* C37: version monotonicity.  In every step, a row of flight or seat_info
\* that changes has its version increased by exactly 1 (so a row without a
\* version never changes, no version decreases, and no change of
\* available_tickets or seat_status is committed without its increment)
C37_VersionMonotonic ==
    [][/\ \A f \in Flights :
            flight'[f] # flight[f] =>
                /\ flight[f].version # NULL
                /\ flight'[f].version = flight[f].version + 1
       /\ \A k \in Flights \X SeatNumbers :
            /\ seat_info'[k].version >= seat_info[k].version
            /\ seat_info'[k].seat_status # seat_info[k].seat_status =>
                  seat_info'[k].version = seat_info[k].version + 1]_vars

\* a booking was compensated after acquiring quota, a seat request
\* succeeded, and a seat that was booked is AVAILABLE again
C37_Witness ==
    /\ \E p \in Procs : Done(p) /\ proc[p].reverted # <<>>
    /\ \E p \in Procs : IsBookSeat(p) /\ Returned(p, "Ok")
    /\ \E k \in Flights \X SeatNumbers :
          seat_info[k].seat_status = Available /\ seat_info[k].version >= 2

\* C38: a seat that is UNAVAILABLE is left as it is by every step of
\* book_ticket, book_seat_for_ticket and compensation (status and version
\* unchanged), and after the step no ticket references it
C38_UnavailableUntouched ==
    [][\A k \in Flights \X SeatNumbers :
          seat_info[k].seat_status = Unavailable =>
              /\ seat_info'[k] = seat_info[k]
              /\ \A t \in ticket' : ~(t.flight_id = k[1] /\ t.seat_number = k[2])]_vars

\* seat 1 of flight 1 is UNAVAILABLE; a booking preferred it, acquired
\* flight 1 and was compensated, and a seat request for it was refused
C38_Witness ==
    /\ seat_info[<<1, 1>>].seat_status = Unavailable
    /\ Done(1) /\ proc[1].reverted # <<>>
    /\ calls[1].flights[1].preferred_seat = 1
    /\ IsBookSeat(2) /\ calls[2].seat_number = 1
    /\ Returned(2, ValidationError)

====
